---- MODULE Spec2Model ----
(***************************************************************************)
(* Model of the daily-reading bot: the shelf cache, the SQLite store, the  *)
(* scrapers and the WhatsApp message handler.                              *)
(*                                                                         *)
(* Text is a sequence of tokens.  A token is a one-character string        *)
(* ("_", "*", " ", a digit, a letter) or an opaque word that contains no   *)
(* markup character and is never cut by a character-level operation.       *)
(***************************************************************************)
EXTENDS Integers, Sequences, FiniteSets, TLC

\* ------------------------------------------------------------------ bounds
MaxOps == 2          \* operations started in one sequential behaviour
MaxConcOps == 2      \* operations started in one concurrent behaviour
MaxDbFaults == 1     \* commits that the database fails in one sequential behaviour
MaxConcDbFaults == 0 \* commits that the database fails in one concurrent behaviour
MaxConcSources == 1  \* sources that can be scraped in one concurrent behaviour
MaxContentLen == 6   \* characters of a text given to a parser called on its own
MaxAttempts == 4     \* attempts configured for a function wrapped by retry_on_failure
MaxStoreCalls == 2   \* calls of store_reading_with_recipient made one after the other

\* ------------------------------------------------------- program constants
READING_RETRY_ATTEMPTS == 3

DR_KEY == "dr"
JFT_KEY == "jft"
SPAD_KEY == "spad"
Types == {DR_KEY, JFT_KEY, SPAD_KEY}

Workers == {1, 2}
WaIds == {"wa1", "wa2"}
Days == {1, 12}      \* day of the month of date.today(); the month is May

None == <<"None">>   \* Python None; no text equals it

\* ------------------------------------------------------------ str helpers
WS == {" ", "\n", "\t"}

\* s[a:b] of Python for 0 <= a, b (0-based, b exclusive)
Slice(s, a, b) == IF b <= a THEN << >> ELSE SubSeq(s, a + 1, IF b > Len(s) THEN Len(s) ELSE b)

\* s.startswith(sub, i) with a 0-based i
MatchAt(s, sub, i) ==
    /\ i + Len(sub) <= Len(s)
    /\ \A j \in 1..Len(sub) : s[i + j] = sub[j]

\* s.find(sub, start): 0-based index of the first occurrence, -1 when absent
Find(s, sub, start) ==
    LET hits == {i \in start..(Len(s) - Len(sub)) : MatchAt(s, sub, i)}
    IN IF hits = {} THEN -1 ELSE CHOOSE i \in hits : \A j \in hits : i <= j

\* s.strip()
Strip(s) ==
    LET keep == {i \in 1..Len(s) : s[i] \notin WS}
    IN IF keep = {} THEN << >>
       ELSE SubSeq(s, CHOOSE i \in keep : \A j \in keep : i <= j,
                      CHOOSE i \in keep : \A j \in keep : i >= j)

RECURSIVE ReplaceFrom(_, _, _, _)
ReplaceFrom(s, old, new, i) ==
    IF i >= Len(s) THEN << >>
    ELSE IF MatchAt(s, old, i) THEN new \o ReplaceFrom(s, old, new, i + Len(old))
    ELSE <<s[i + 1]>> \o ReplaceFrom(s, old, new, i + 1)

\* s.replace(old, new) for a non-empty old
Replace(s, old, new) == ReplaceFrom(s, old, new, 0)

\* ''.join(parts)
RECURSIVE Join(_)
Join(parts) == IF parts = << >> THEN << >> ELSE Head(parts) \o Join(Tail(parts))

\* ------------------------------------------------------------------ dates
MonthName == <<"M", "a", "y">>
DigitChars == <<"0", "1", "2", "3", "4", "5", "6", "7", "8", "9">>

\* date.strftime(FORMAT) with FORMAT = '%B %d': the day is zero-padded
strftime(d) == MonthName \o <<" ", DigitChars[(d \div 10) + 1], DigitChars[(d % 10) + 1]>>

\* re.search(r'_\*([^*]+)\*_', content): group(1) of the first match, None when there is none
date_match(content) ==
    LET n == Len(content)
        stars(i) == {k \in (i + 3)..n : content[k] = "*"}
        close(i) == CHOOSE k \in stars(i) : \A j \in stars(i) : k <= j
        ok(i) == /\ i + 4 <= n
                 /\ content[i] = "_"
                 /\ content[i + 1] = "*"
                 /\ content[i + 2] # "*"
                 /\ stars(i) # {}
                 /\ close(i) + 1 <= n
                 /\ content[close(i) + 1] = "_"
        hits == {i \in 1..n : ok(i)}
        first == CHOOSE i \in hits : \A j \in hits : i <= j
    IN IF hits = {} THEN None ELSE SubSeq(content, first + 2, close(first) - 1)

\* variant: without the test of date_match
parse_date_unguarded(content) == Strip(date_match(content))

\* date = date_match.group(1).strip() if date_match else ""
parse_date(content) == IF date_match(content) = None THEN << >> ELSE Strip(date_match(content))

\* the en dash U+2013 of the source marker, as one token
ENDASH == "~"

\* s.rfind(sub): 0-based index of the last occurrence, -1 when absent
RFind(s, sub) ==
    LET hits == {i \in 0..(Len(s) - Len(sub)) : MatchAt(s, sub, i)}
    IN IF hits = {} THEN -1 ELSE CHOOSE i \in hits : \A j \in hits : i >= j

\* re.finditer of ch([^ch]+)ch from the 1-based position i on: the matches from left to
\* right, none overlapping another, each with its 0-based start, its end and its group
RECURSIVE finditer(_, _, _)
finditer(s, ch, i) ==
    IF i + 2 > Len(s) THEN << >>
    ELSE IF s[i] = ch /\ s[i + 1] # ch /\ \E k \in (i + 2)..Len(s) : s[k] = ch
         THEN LET k == CHOOSE k \in (i + 2)..Len(s) :
                          s[k] = ch /\ \A j \in (i + 2)..(k - 1) : s[j] # ch
              IN <<[start |-> i - 1, end |-> k, group |-> SubSeq(s, i + 1, k - 1)]>>
                     \o finditer(s, ch, k + 1)
         ELSE finditer(s, ch, i + 1)

\* re.findall(r'\*([^*]+)\*', s) for ch = "*", re.findall(r'_([^_]+)_', s) for ch = "_"
findall(s, ch) == LET m == finditer(s, ch, 1) IN [i \in 1..Len(m) |-> m[i].group]

\* quote_match.group(1).strip() if quote_match else "", for re.search(r'_([^_]+)_', s), and
\* likewise for re.search(r'\*([^*]+)\*', s)
search_group(s, ch) == LET m == finditer(s, ch, 1) IN IF m = << >> THEN << >> ELSE Strip(m[1].group)

\* variant: the first _..._ anywhere, whether there is a heading or not
quote_after_anywhere(content, heading) == search_group(content, "_")

\* the quote of the three parsers: the first _..._ after the first occurrence of the
\* heading, or the first _..._ anywhere when there is no heading
quote_after(content, heading) ==
    IF heading # << >>
    THEN LET heading_pos == Find(content, heading, 0)
         IN IF heading_pos # -1
            THEN search_group(Slice(content, heading_pos + Len(heading), Len(content)), "_")
            ELSE << >>
    ELSE search_group(content, "_")

\* the source of the jft and spad parsers: the first *...* after the first occurrence of the quote
source_after(content, quote) ==
    IF quote # << >>
    THEN LET quote_pos == Find(content, quote, 0)
         IN IF quote_pos # -1
            THEN search_group(Slice(content, quote_pos + Len(quote), Len(content)), "*")
            ELSE << >>
    ELSE << >>

\* re.search(r'\*[en dash]\s*([^*]+)\*', content): group(1) of the first match, None when
\* there is none; \s* takes the white space it can and leaves one character to the group
dr_source_match(content) ==
    LET n == Len(content)
        stars(i) == {k \in (i + 3)..n : content[k] = "*"}
        close(i) == CHOOSE k \in stars(i) : \A j \in stars(i) : k <= j
        ok(i) == /\ i + 3 <= n
                 /\ content[i] = "*"
                 /\ content[i + 1] = ENDASH
                 /\ content[i + 2] # "*"
                 /\ stars(i) # {}
        hits == {i \in 1..n : ok(i)}
        first == CHOOSE i \in hits : \A j \in hits : i <= j
        inner == SubSeq(content, first + 2, close(first) - 1)
        black == {j \in 1..Len(inner) : inner[j] \notin WS}
        from == IF black = {} THEN Len(inner) ELSE CHOOSE j \in black : \A q \in black : j <= q
    IN IF hits = {} THEN None ELSE SubSeq(inner, from, Len(inner))

\* the characters between the brackets of the leading-dash pattern of each parser; the
\* pattern of the spad parser holds the bytes of the en dash read as three characters
DR_DASHES == {ENDASH, "-"}
SPAD_DASHES == {"a-circumflex", "euro", "left-quote", "-"}

\* re.sub(r'^\s*[dashes]\s*', '', s)
sub_leading_dash(s, dashes) ==
    LET black == {j \in 1..Len(s) : s[j] \notin WS}
        first == CHOOSE j \in black : \A q \in black : j <= q
        later == {j \in black : j > first}
    IN IF black = {} \/ s[first] \notin dashes THEN s
       ELSE IF later = {} THEN << >>
       ELSE SubSeq(s, CHOOSE j \in later : \A q \in later : j <= q, Len(s))

\* re.sub(r'[ \t]+', ' ', s) for set = {" ", "\t"}, re.sub(r'\s+', ' ', s) for set = WS
RECURSIVE sub_runs(_, _)
sub_runs(s, set) ==
    IF s = << >> THEN << >>
    ELSE IF Head(s) \in set
         THEN IF Len(s) > 1 /\ s[2] \in set THEN sub_runs(Tail(s), set)
              ELSE <<" ">> \o sub_runs(Tail(s), set)
    ELSE <<Head(s)>> \o sub_runs(Tail(s), set)

BLANKS == {" ", "\t"}

\* narrative.strip() with the leading dash removed and the runs of blanks made one space
clean_narrative(s, dashes) == sub_runs(sub_leading_dash(Strip(s), dashes), BLANKS)

\* the narrative of the dr parser: the text between the first occurrence of the source and
\* the first occurrence of the affirmation
dr_narrative(content, source, affirmation) ==
    IF source # << >> /\ affirmation # << >>
    THEN LET source_pos == Find(content, source, 0)
             affirmation_pos == Find(content, affirmation, 0)
         IN IF source_pos # -1 /\ affirmation_pos # -1 /\ affirmation_pos > source_pos
            THEN clean_narrative(Slice(content, source_pos + Len(source) + 1, affirmation_pos - 1),
                                 DR_DASHES)
            ELSE << >>
    ELSE << >>

\* variant: without the test of source and affirmation
narrative_before_unguarded(content, source, affirmation, last, dashes) ==
    LET source_pos == Find(content, source, 0)
        narrative_start == source_pos + Len(source) + 1
        last_pos == RFind(content, last) - 1
    IN IF source_pos # -1 /\ last_pos > narrative_start
       THEN clean_narrative(Slice(content, narrative_start, last_pos), dashes)
       ELSE << >>

\* the narrative of the jft and spad parsers: the text between the first occurrence of the
\* source and the last occurrence of last (the last *...* of jft, the affirmation of spad)
narrative_before(content, source, affirmation, last, dashes) ==
    IF source # << >> /\ affirmation # << >>
    THEN LET source_pos == Find(content, source, 0)
             narrative_start == source_pos + Len(source) + 1
             last_pos == RFind(content, last) - 1
         IN IF source_pos # -1 /\ last_pos > narrative_start
            THEN clean_narrative(Slice(content, narrative_start, last_pos), dashes)
            ELSE << >>
    ELSE << >>

\* the affirmation of the jft parser: the text after the last occurrence of the last *...*
jft_affirmation(content, last_star_content) ==
    LET last_star_pos == RFind(content, last_star_content)
    IN IF last_star_pos # -1
       THEN sub_runs(sub_leading_dash(Strip(Slice(content, last_star_pos + Len(last_star_content) + 1,
                                                  Len(content))),
                                      DR_DASHES),
                     WS)
       ELSE << >>

\* the three parse_reading_to_dict variants; no string input makes them raise
dr_loader(content) ==
    LET all_star_matches == findall(content, "*")
        heading == IF Len(all_star_matches) > 1 THEN Strip(all_star_matches[2]) ELSE << >>
        source == IF dr_source_match(content) = None THEN << >> ELSE Strip(dr_source_match(content))
        affirmation == IF all_star_matches # << >>
                       THEN Strip(all_star_matches[Len(all_star_matches)]) ELSE << >>
    IN [reading_type |-> DR_KEY, date |-> parse_date(content), heading |-> heading,
        quote |-> quote_after(content, heading), source |-> source,
        narrative |-> dr_narrative(content, source, affirmation), affirmation |-> affirmation]

jft_loader(content) ==
    LET all_star_matches == findall(content, "*")
        heading == IF Len(all_star_matches) > 2 THEN Strip(all_star_matches[3]) ELSE << >>
        quote == quote_after(content, heading)
        source == source_after(content, quote)
        last_star_content == IF all_star_matches # << >>
                             THEN Strip(all_star_matches[Len(all_star_matches)]) ELSE << >>
        affirmation == jft_affirmation(content, last_star_content)
    IN [reading_type |-> JFT_KEY, date |-> parse_date(content), heading |-> heading,
        quote |-> quote, source |-> source,
        narrative |-> narrative_before(content, source, affirmation, last_star_content, DR_DASHES),
        affirmation |-> affirmation]

spad_loader(content) ==
    LET all_star_matches == findall(content, "*")
        heading == IF Len(all_star_matches) > 2 THEN Strip(all_star_matches[3]) ELSE << >>
        quote == quote_after(content, heading)
        source == source_after(content, quote)
        all_underscore_matches == findall(content, "_")
        affirmation == IF Len(all_underscore_matches) > 1
                       THEN Strip(all_underscore_matches[Len(all_underscore_matches)]) ELSE << >>
    IN [reading_type |-> SPAD_KEY, date |-> parse_date(content), heading |-> heading,
        quote |-> quote, source |-> source,
        narrative |-> narrative_before(content, source, affirmation, affirmation, SPAD_DASHES),
        affirmation |-> affirmation]

\* reading_loaders[key](file_text)
reading_loaders(key, content) ==
    CASE key = DR_KEY -> dr_loader(content)
      [] key = JFT_KEY -> jft_loader(content)
      [] key = SPAD_KEY -> spad_loader(content)

\* ---------------------------------------------------------------- sources
ValidationError == <<"ValidationError">>

Anchor(d) == <<"_", "*">> \o d \o <<"*", "_">>

ShortDate(d) == Replace(strftime(d), <<" ", "0">>, <<" ">>)

\* one entry of the reflections file, in the markup of the dr loader
Entry(d, heading) ==
    Anchor(ShortDate(d)) \o <<"\n", "\n", "*", heading, "*", "\n", "_", "Quote", "_", "\n",
                              "*", ENDASH, " ", "Book", "*", "\n", "Narrative", "\n",
                              "*", "Affirmation", "*", "\n", "\n">>

\* contents of the reflections file that a scrape can find on disk: the entries of the
\* month, the file with no entry of today, and the file after its entries were edited
FullFile == <<"pretext", "\n">> \o Entry(1, "Heading1") \o Entry(12, "Heading12") \o Entry(13, "Heading13")
OtherDayFile == <<"pretext", "\n">> \o Entry(13, "Heading13")
RevisedFile == <<"pretext", "\n">> \o Entry(1, "Revised1") \o Entry(12, "Revised12") \o Entry(13, "Heading13")
ReflectionsFiles == {FullFile, OtherDayFile, RevisedFile}

\* the slice of extract_daily_reflection: today's entry, or ValidationError
today_readings_of(contents, d) ==
    LET formatted_date == Replace(strftime(d), <<" ", "0">>, <<" ">>)
        start == Find(contents, <<"_", "*">> \o formatted_date \o <<"*", "_">>, 0)
        found == Find(contents, <<"_", "*">>, start + 1)
        end == IF found = -1 THEN Len(contents) ELSE found
    IN IF start = -1 THEN ValidationError ELSE Strip(Slice(contents, start, end))

\* the td texts of a page: date, header, filler, summary, reference, body, footer, extra footer
PageRows(d) ==
    << strftime(d) \o <<",", " ", "2", "0", "2", "4">>,
       <<" ", "Header", "\n">>,
       << >>,
       <<"Summary">>,
       <<"Reference">>,
       <<"Body", "\n">>,
       <<"Just for Today:", " ", "Footer">>,
       <<"Extra">> >>

\* what parse_table can return for a page of day d: the page of d, a page with
\* fewer rows, or the page of another day
Pages(d) == {PageRows(d), SubSeq(PageRows(d), 1, 7), SubSeq(PageRows(d), 1, 6),
             SubSeq(PageRows(d), 1, 5), PageRows(13)}

_format_date(date_to_fmt) ==
    <<"_", "*">> \o Slice(Strip(date_to_fmt), 0, Len(Strip(date_to_fmt)) - 6) \o <<"*", "_">>
_format_header(header) == <<"*">> \o Strip(header) \o <<"*">>
_format_summary(summary) == <<"_">> \o Strip(summary) \o <<"_">>
_format_reference(reference) == <<"*">> \o Strip(reference) \o <<"*">>
_format_jft_footer(footer) ==
    Replace(Strip(footer), <<"Just for Today:">>, <<"*", "Just for Today:", "*">>)
_format_spad_footer(footer) == <<"_">> \o Strip(footer) \o <<"_">>

NL2 == <<"\n", "\n">>

\* the list built by _extract_content; the caller checks the row count first
_extract_content(header, parsed_rows) ==
    << header,
       NL2 \o _format_date(parsed_rows[1]),
       NL2 \o _format_header(parsed_rows[2]),
       NL2 \o _format_summary(parsed_rows[4]),
       NL2 \o _format_reference(parsed_rows[5]),
       NL2 \o Strip(parsed_rows[6]) >>

JftHeader == <<"#", " ", "*", "Just For Today", "*", " ", "#">>
SpadHeader == <<"#", " ", "*", "Spiritual Principle A Day", "*", " ", "#">>

\* variant: a page of six rows is taken, with an empty footer
jft_page_text_six_rows(table, d) ==
    IF ~table.ok \/ table.value = << >> \/ Len(table.value) < 6
    THEN ValidationError
    ELSE LET jft_rows == table.value
             footer == IF Len(jft_rows) < 7 THEN << >> ELSE jft_rows[7]
             content == _extract_content(JftHeader, jft_rows) \o <<NL2 \o _format_jft_footer(footer)>>
             file_text == Strip(Join(content))
         IN IF Find(file_text, strftime(d), 0) # -1 THEN file_text ELSE ValidationError

\* the try block of parse_jft_page on what parse_table returned: the text
\* written to and read back from the jft file, or ValidationError
jft_page_text(table, d) ==
    IF ~table.ok \/ table.value = << >> \/ Len(table.value) < 6 \/ Len(table.value) < 7
    THEN ValidationError
    ELSE LET jft_rows == table.value
             content == _extract_content(JftHeader, jft_rows)
                            \o <<NL2 \o _format_jft_footer(jft_rows[7])>>
             file_text == Strip(Join(content))
         IN IF Find(file_text, strftime(d), 0) # -1 THEN file_text ELSE ValidationError

\* variant: the text is taken whatever its date
spad_page_text_undated(table, d) ==
    IF ~table.ok \/ table.value = << >> \/ Len(table.value) < 6 \/ Len(table.value) < 8
    THEN ValidationError
    ELSE LET spad_rows == table.value
             content == _extract_content(SpadHeader, spad_rows)
                            \o <<NL2 \o Strip(spad_rows[7])>>
                            \o <<NL2 \o _format_spad_footer(spad_rows[8])>>
         IN Strip(Join(content))

\* the try block of parse_spad_page, likewise
spad_page_text(table, d) ==
    IF ~table.ok \/ table.value = << >> \/ Len(table.value) < 6 \/ Len(table.value) < 8
    THEN ValidationError
    ELSE LET spad_rows == table.value
             content == _extract_content(SpadHeader, spad_rows)
                            \o <<NL2 \o Strip(spad_rows[7])>>
                            \o <<NL2 \o _format_spad_footer(spad_rows[8])>>
             file_text == Strip(Join(content))
         IN IF Find(file_text, strftime(d), 0) # -1 THEN file_text ELSE ValidationError

\* ------------------------------------------------------------------ retry
\* retry_on_failure on the outcomes [ok, value] of the successive calls of the
\* wrapped function: the calls made and the outcome of the last call, which the
\* wrapper returns (ok) or re-raises (~ok)
\* variant: no attempt is the last one
last_attempt_never(attempt, attempts) == FALSE

\* if attempt == attempts - 1: raise
last_attempt(attempt, attempts) == attempt = attempts - 1

RECURSIVE retry_from(_, _, _)
retry_from(outcomes, attempt, attempts) ==
    IF attempt >= attempts THEN [calls |-> attempt, sleeps |-> 0, ok |-> TRUE, value |-> None]
    ELSE IF outcomes[attempt + 1].ok
         THEN [calls |-> attempt + 1, sleeps |-> 0, ok |-> TRUE, value |-> outcomes[attempt + 1].value]
    ELSE IF last_attempt(attempt, attempts)
         THEN [calls |-> attempt + 1, sleeps |-> 0, ok |-> FALSE, value |-> outcomes[attempt + 1].value]
    ELSE LET later == retry_from(outcomes, attempt + 1, attempts)
         IN [later EXCEPT !.sleeps = @ + 1]

retry_on_failure(outcomes) == retry_from(outcomes, 0, READING_RETRY_ATTEMPTS)

Attempts == 1..READING_RETRY_ATTEMPTS

\* one HTTP GET of parse_table: a request error or a page without table rows
\* raises, a page with rows returns their td texts
GetOutcomes(d) ==
    {[ok |-> FALSE, value |-> << >>]} \cup {[ok |-> TRUE, value |-> rows] : rows \in Pages(d)}

\* what the retried parse_table can return or raise on day d
parse_table(d) ==
    {[ok |-> t.ok, value |-> t.value] : t \in {retry_on_failure(gets) : gets \in [Attempts -> GetOutcomes(d)]}}

\* one call of the body of parse_jft_page / parse_spad_page around a parse_table result
PageOutcome(file_text) == [ok |-> file_text # ValidationError, value |-> file_text]

\* what the retried parse_jft_page / parse_spad_page can return (a text) or raise
\* (ValidationError) on day d; a returning call has stored its text
parse_jft_page_results(d) ==
    LET calls == {PageOutcome(jft_page_text(table, d)) : table \in parse_table(d)}
    IN {retry_on_failure(tries).value : tries \in [Attempts -> calls]}
parse_spad_page_results(d) ==
    LET calls == {PageOutcome(spad_page_text(table, d)) : table \in parse_table(d)}
    IN {retry_on_failure(tries).value : tries \in [Attempts -> calls]}

\* what extract_daily_reflection can slice out of the file (a text) or raise on day d
extract_daily_reflection_results(d) == {today_readings_of(contents, d) : contents \in ReflectionsFiles}

\* the scrape functions by key and day, tabulated
ScrapeResults ==
    [key \in Types |-> [d \in Days |->
        CASE key = DR_KEY -> extract_daily_reflection_results(d)
          [] key = JFT_KEY -> parse_jft_page_results(d)
          [] key = SPAD_KEY -> parse_spad_page_results(d)]]

\* reading_loaders on the texts the scrapes can return, tabulated
ScrapedTexts(key) == UNION {ScrapeResults[key][d] : d \in Days} \ {ValidationError}
ParsedDict == [key \in Types |-> [file_text \in ScrapedTexts(key) |-> reading_loaders(key, file_text)]]

\* ------------------------------------------------------------------ state
VARIABLES
    today,       \* day of the month returned by date.today()
    shelf,       \* the shelve file: key -> (date string -> entry)
    memo,        \* values memoized for retrieve_readings, per key
    readings,    \* rows of table readings
    recipients,  \* rows of table recipients
    wk,          \* per worker thread: the running operation, its position and locals
    budget,      \* operations that may still start
    faults,      \* commits that the database may still fail
    online,      \* the sources that hold today's reading; the others fail every scrape
    concurrent,  \* whether operations of different workers may overlap
    delivered,   \* history: the (key, wa_id) for which process_reading has returned text
    fn,          \* the function called on its own, outside of a request; "none" before the call
    arg,         \* the argument of that call
    ret          \* what that call returned or raised

vars == <<today, shelf, memo, readings, recipients, wk, budget, faults, online, concurrent, delivered,
          fn, arg, ret>>

Order == <<DR_KEY, JFT_KEY, SPAD_KEY>>
NextKey(key) == CASE key = DR_KEY -> JFT_KEY [] key = JFT_KEY -> SPAD_KEY [] OTHER -> ""

NoDict == [reading_type |-> "", date |-> << >>, heading |-> << >>, quote |-> << >>, source |-> << >>,
           narrative |-> << >>, affirmation |-> << >>]

IdleWorker ==
    [op |-> "idle", pc |-> "idle", serial |-> 0, key |-> "", wa |-> "", text |-> << >>, contents |-> << >>,
     results |-> [k \in Types |-> "pending"], dict |-> NoDict, rid |-> 0,
     storeRes |-> "none", stored |-> 0, addRes |-> "none",
     sent |-> << >>, status |-> "none", quote |-> "none"]

\* readings.get(today)
HasEntry(rs, d) == d \in DOMAIN rs
\* readings[today] = {"text": file_text, "extract_date": ..., "recipients": []}
NewEntry(file_text) == [text |-> file_text, recipients |-> << >>]

InitShared ==
    /\ today \in Days
    /\ shelf = [k \in Types |-> << >>]
    /\ memo = [k \in Types |-> [valid |-> FALSE, value |-> << >>, by |-> 0]]
    /\ readings = {}
    /\ recipients = {}
    /\ wk = [w \in Workers |-> IdleWorker]
    /\ delivered = {}

\* no function is called on its own
NoCall == fn = "none" /\ arg = None /\ ret = None

\* one worker thread at a time: every operation runs to its end before the next starts
Init ==
    /\ InitShared
    /\ NoCall
    /\ concurrent = FALSE
    /\ budget = MaxOps
    /\ faults = MaxDbFaults
    /\ online = Types

\* the request threads and the scheduler thread overlap freely
InitConc ==
    /\ InitShared
    /\ NoCall
    /\ concurrent = TRUE
    /\ budget = MaxConcOps
    /\ faults = MaxConcDbFaults
    /\ online \in {S \in SUBSET Types : S # {} /\ Cardinality(S) <= MaxConcSources}

Running(w) == wk[w].pc \notin {"idle", "done"}

\* a request or a scheduler run is taken by a free worker thread: the lowest one
CanStart(w) ==
    /\ budget > 0
    /\ ~Running(w)
    /\ \A v \in Workers : v < w => Running(v)
    /\ concurrent \/ \A v \in Workers : ~Running(v)

\* ------------------------------------------------- Reading / Recipient rows
ReadingRows(reading_type, date) ==
    {r \in readings : r.date = date /\ r.reading_type = reading_type}
RecipientRows(reading_id, wa_id) ==
    {r \in recipients : r.reading_id = reading_id /\ r.wa_id = wa_id}
\* Reading(reading_type=..., date=..., heading=..., ...) with its primary key
Reading(id, reading_dict) ==
    [id |-> id, reading_type |-> reading_dict.reading_type, date |-> reading_dict.date,
     heading |-> reading_dict.heading, quote |-> reading_dict.quote, source |-> reading_dict.source,
     narrative |-> reading_dict.narrative, affirmation |-> reading_dict.affirmation]
\* .first() of a query
First(rows) == CHOOSE r \in rows : \A q \in rows : r.id <= q.id
\* the INTEGER PRIMARY KEY of a new row
NewId(rows) == IF rows = {} THEN 1 ELSE (CHOOSE i \in {r.id : r \in rows} : \A r \in rows : r.id <= i) + 1

\* ------------------------------------------------------------ control flow
\* the loop over reading_processors moves on to the next key, or ends
Advance(r) ==
    LET nk == NextKey(r.key)
        c == [r EXCEPT !.key = nk, !.text = << >>, !.dict = NoDict, !.rid = 0]
    IN IF r.op = "msg"
       THEN [c EXCEPT !.pc = IF nk = "" THEN "respond" ELSE "pr_retrieve"]
       ELSE [c EXCEPT !.pc = IF nk = "" THEN "done" ELSE "sd_retrieve",
                      !.status = IF nk = "" THEN "ok" ELSE r.status]

\* variant: the exception of one source ends the loop and the call raises
ProcessReadingRaised_abort(r) ==
    [r EXCEPT !.results[r.key] = "raised", !.pc = "done", !.status = "raised"]

\* process_reading raised DatabaseError: generate_daily_reading_responses logs and continues
ProcessReadingRaised(r) == Advance([r EXCEPT !.results[r.key] = "raised"])

\* variant: the text is put in front of contents
ProcessReadingReturned_prepend(r) ==
    Advance([r EXCEPT !.results[r.key] = IF r.text # << >> THEN "text" ELSE "empty",
                      !.contents = IF r.text # << >> THEN <<r.text>> \o r.contents ELSE r.contents])

\* process_reading returned reading_text: appended to contents when non-empty
ProcessReadingReturned(r) ==
    Advance([r EXCEPT !.results[r.key] = IF r.text # << >> THEN "text" ELSE "empty",
                      !.contents = IF r.text # << >> THEN Append(r.contents, r.text) ELSE r.contents])

\* process_func() returned file_text to its caller
ScrapeReturned(r) ==
    CASE r.op = "msg" -> [r EXCEPT !.pc = "ar_shelf"]
      [] r.op = "periodic" -> Advance(r)
      [] r.op = "pasr" -> [r EXCEPT !.pc = "swr_query", !.dict = ParsedDict[r.key][r.text]]

\* process_func() raised
ScrapeRaised(r) ==
    CASE r.op = "msg" -> ProcessReadingRaised(r)
      [] r.op = "periodic" -> Advance(r)
      [] r.op = "pasr" -> [r EXCEPT !.pc = "done", !.status = "false"]

\* the history of deliveries follows the results of the workers
Deliver(w, r2) ==
    delivered' = IF wk[w].op = "msg" /\ wk[w].key \in Types
                    /\ wk[w].results[wk[w].key] = "pending" /\ r2.results[wk[w].key] = "text"
                 THEN delivered \cup {<<wk[w].key, wk[w].wa>>}
                 ELSE delivered

\* ------------------------------------------------------ inbound message
\* process_whatsapp_message up to the call of generate_daily_reading_responses;
\* send_message, the transport to the WhatsApp API, delivers what it is given
StartMessage(w, wa_id) ==
    /\ CanStart(w)
    /\ budget' = budget - 1
    /\ wk' = [wk EXCEPT ![w] = [IdleWorker EXCEPT !.op = "msg", !.pc = "pr_retrieve",
                                                  !.serial = budget, !.key = DR_KEY,
                                                  !.wa = wa_id, !.status = "running"]]
    /\ UNCHANGED <<fn, arg, ret, today, shelf, memo, readings, recipients, faults, online, concurrent, delivered>>

\* retrieve_readings(key) under cache.memoize: the memoized value of an earlier
\* call when the cache key (the repr of the storage object and the key) hits,
\* otherwise the shelf content, which is then memoized
retrieve_readings(key, hit) == IF hit THEN memo[key].value ELSE shelf[key]
memoize(w, key, hit) ==
    IF hit THEN memo
    ELSE [memo EXCEPT ![key] = [valid |-> TRUE, value |-> shelf[key], by |-> wk[w].serial]]
\* the cache key of a ReadingStorage object is its repr, which holds its address: a
\* new object can hit the value memoized by an object that has been freed
CanHit(key) ==
    /\ memo[key].valid
    /\ \A v \in Workers : Running(v) => wk[v].serial # memo[key].by

\* process_reading, from retrieve_readings to the decision to scrape
ProcessReadingRetrieve(w) ==
    /\ wk[w].pc = "pr_retrieve"
    /\ \E hit \in BOOLEAN :
         /\ hit => CanHit(wk[w].key)
         /\ LET rs == retrieve_readings(wk[w].key, hit)
                d == strftime(today)
                reading_text == IF HasEntry(rs, d) THEN rs[d].text ELSE << >>
                r == [wk[w] EXCEPT !.text = reading_text]
            IN /\ wk' = [wk EXCEPT ![w] = IF reading_text = << >>
                                          THEN [r EXCEPT !.pc = "scrape"]
                                          ELSE [r EXCEPT !.pc = "ar_shelf"]]
               /\ memo' = memoize(w, wk[w].key, hit)
    /\ UNCHANGED <<fn, arg, ret, today, shelf, readings, recipients, budget, faults, online, concurrent, delivered>>

\* ---------------------------------------------------------------- scrapes
\* variant: the entry is written under every key
store_reading_shelf_all_keys(file_text, key, d) ==
    [k \in Types |-> (d :> NewEntry(file_text)) @@ shelf[k]]

\* store_reading, the shelf part: today's entry is written with no recipients
store_reading_shelf(file_text, key, d) ==
    [shelf EXCEPT ![key] = (d :> NewEntry(file_text)) @@ @]

\* the scrape obtained file_text and calls storage.store_reading(file_text, key, today):
\* the shelf is written and the text is parsed for the SQLite store
ScrapeStored(w, file_text) ==
    /\ shelf' = store_reading_shelf(file_text, wk[w].key, strftime(today))
    /\ wk' = [wk EXCEPT ![w] = [wk[w] EXCEPT !.text = file_text,
                                             !.dict = ParsedDict[wk[w].key][file_text],
                                             !.pc = "sr_query"]]

\* process_func() of the worker's key, up to store_reading's shelf write:
\* extract_daily_reflection, parse_jft_page or parse_spad_page
Scrape(w, key) ==
    /\ wk[w].pc = "scrape"
    /\ wk[w].key = key
    /\ \E result \in ScrapeResults[key][today] :
         /\ key \notin online => result = ValidationError
         /\ IF result = ValidationError
            THEN wk' = [wk EXCEPT ![w] = ScrapeRaised(wk[w])] /\ UNCHANGED shelf
            ELSE ScrapeStored(w, result)
    /\ UNCHANGED <<fn, arg, ret, today, memo, readings, recipients, budget, faults, online, concurrent, delivered>>

extract_daily_reflection(w) == Scrape(w, DR_KEY)
parse_jft_page(w) == Scrape(w, JFT_KEY)
parse_spad_page(w) == Scrape(w, SPAD_KEY)

\* ------------------------------------------------------- DatabaseService
\* store_reading_dict returned a row (res: "existing" or "inserted")
StoreReturned(r, res, id) ==
    IF r.pc \in {"sr_query", "sr_commit"}
    THEN ScrapeReturned([r EXCEPT !.storeRes = res, !.stored = id])
    ELSE [r EXCEPT !.storeRes = res, !.stored = id, !.rid = id, !.pc = "swr_rquery"]

\* store_reading_dict raised (res: "integrity" or "dberror"): store_reading logs a
\* warning and goes on, store_reading_to_database returns False
StoreRaised(r, res) ==
    IF r.pc \in {"sr_query", "sr_commit"}
    THEN ScrapeReturned([r EXCEPT !.storeRes = res, !.stored = 0])
    ELSE [r EXCEPT !.storeRes = res, !.stored = 0, !.pc = "done", !.status = "false"]

\* variant: the query filters on the date only
existing_reading_by_date(reading_dict) == {r \in readings : r.date = reading_dict.date}

\* query(Reading).filter(Reading.date == ..., Reading.reading_type == ...)
existing_reading(reading_dict) == ReadingRows(reading_dict.reading_type, reading_dict.date)

\* variant: the row found takes the field values of the dictionary
found_existing_reading_updated(found, reading_dict) ==
    (readings \ {found}) \cup {Reading(found.id, reading_dict)}

\* table readings after "if existing_reading: return existing_reading"
found_existing_reading(found, reading_dict) == readings

\* store_reading_dict: the query for an existing reading of this date and type
store_reading_dict_query(w) ==
    /\ wk[w].pc \in {"sr_query", "swr_query"}
    /\ LET r == wk[w]
           existing == existing_reading(r.dict)
       IN /\ wk' = [wk EXCEPT ![w] =
                      IF existing # {}
                      THEN StoreReturned(r, "existing", First(existing).id)
                      ELSE [r EXCEPT !.storeRes = "none", !.stored = 0,
                                     !.pc = IF r.pc = "sr_query" THEN "sr_commit" ELSE "swr_commit"]]
          /\ readings' = IF existing # {} THEN found_existing_reading(First(existing), r.dict)
                         ELSE readings
    /\ UNCHANGED <<fn, arg, ret, today, shelf, memo, recipients, budget, faults, online, concurrent, delivered>>

\* variant: table readings without the constraint
uq_reading_type_date_absent(reading_type, date) == TRUE

\* the INSERT of a Reading passes UniqueConstraint('reading_type', 'date')
uq_reading_type_date(reading_type, date) == ReadingRows(reading_type, date) = {}

\* store_reading_dict: add, commit, refresh; a failing commit is rolled back and re-raised
store_reading_dict_commit(w) ==
    /\ wk[w].pc \in {"sr_commit", "swr_commit"}
    /\ \E db_ok \in {TRUE} \cup {FALSE : i \in 1..faults} :
         LET r == wk[w]
             id == NewId(readings)
         IN /\ faults' = IF db_ok THEN faults ELSE faults - 1
            /\ IF ~db_ok
               THEN wk' = [wk EXCEPT ![w] = StoreRaised(r, "dberror")] /\ UNCHANGED readings
               ELSE IF ~uq_reading_type_date(r.dict.reading_type, r.dict.date)
               THEN wk' = [wk EXCEPT ![w] = StoreRaised(r, "integrity")] /\ UNCHANGED readings
               ELSE /\ readings' = readings \cup {Reading(id, r.dict)}
                    /\ wk' = [wk EXCEPT ![w] = StoreReturned(r, "inserted", id)]
    /\ UNCHANGED <<fn, arg, ret, today, shelf, memo, recipients, budget, online, concurrent, delivered>>

\* add_recipient_to_reading returned a row (res: "existing" or "inserted")
AddReturned(r, res) ==
    IF r.pc \in {"ar_query", "ar_commit"}
    THEN ProcessReadingReturned([r EXCEPT !.addRes = res])
    ELSE [r EXCEPT !.addRes = res, !.pc = "done", !.status = "true"]

\* add_recipient_to_reading raised: add_recipient raises DatabaseError and so does
\* process_reading; store_reading_to_database returns False
AddRaised(r, res) ==
    IF r.pc \in {"ar_query", "ar_commit"}
    THEN ProcessReadingRaised([r EXCEPT !.addRes = res])
    ELSE [r EXCEPT !.addRes = res, !.pc = "done", !.status = "false"]

\* ReadingStorage.add_recipient, the shelf part: the recipient is appended to today's entry
add_recipient_shelf(w) ==
    /\ wk[w].pc = "ar_shelf"
    /\ LET key == wk[w].key
           d == strftime(today)
       IN shelf' = [shelf EXCEPT ![key][d].recipients = Append(@, wk[w].wa)]
    /\ wk' = [wk EXCEPT ![w].pc = "ar_lookup", ![w].addRes = "none"]
    /\ UNCHANGED <<fn, arg, ret, today, memo, readings, recipients, budget, faults, online, concurrent, delivered>>

\* get_reading_by_date_and_type(today, key)
get_reading_by_date_and_type(date, reading_type) == ReadingRows(reading_type, date)

\* ReadingStorage.add_recipient, the lookup of the Reading of (today, key)
add_recipient_lookup(w) ==
    /\ wk[w].pc = "ar_lookup"
    /\ LET r == wk[w]
           reading == get_reading_by_date_and_type(strftime(today), r.key)
           r2 == IF reading = {}
                 THEN ProcessReadingReturned([r EXCEPT !.addRes = "noreading"])
                 ELSE [r EXCEPT !.rid = First(reading).id, !.pc = "ar_query"]
       IN wk' = [wk EXCEPT ![w] = r2] /\ Deliver(w, r2)
    /\ UNCHANGED <<fn, arg, ret, today, shelf, memo, readings, recipients, budget, faults, online, concurrent>>

\* variant: the query finds no row
existing_recipient_unchecked(reading_id, wa_id) == {}

\* query(Recipient).filter(Recipient.reading_id == reading_id, Recipient.wa_id == wa_id)
existing_recipient(reading_id, wa_id) == RecipientRows(reading_id, wa_id)

\* add_recipient_to_reading: the query for an existing recipient of this reading and wa_id
add_recipient_to_reading_query(w) ==
    /\ wk[w].pc \in {"ar_query", "swr_rquery"}
    /\ LET r == wk[w]
           r2 == IF existing_recipient(r.rid, r.wa) # {}
                 THEN AddReturned(r, "existing")
                 ELSE [r EXCEPT !.addRes = "none",
                                !.pc = IF r.pc = "ar_query" THEN "ar_commit" ELSE "swr_rcommit"]
       IN wk' = [wk EXCEPT ![w] = r2] /\ Deliver(w, r2)
    /\ UNCHANGED <<fn, arg, ret, today, shelf, memo, readings, recipients, budget, faults, online, concurrent>>

\* add_recipient_to_reading: add, commit, refresh; table recipients has no unique constraint
add_recipient_to_reading_commit(w) ==
    /\ wk[w].pc \in {"ar_commit", "swr_rcommit"}
    /\ \E db_ok \in {TRUE} \cup {FALSE : i \in 1..faults} :
         LET r == wk[w]
             r2 == IF db_ok THEN AddReturned(r, "inserted") ELSE AddRaised(r, "dberror")
         IN /\ faults' = IF db_ok THEN faults ELSE faults - 1
            /\ recipients' = IF db_ok
                             THEN recipients \cup {[id |-> NewId(recipients), reading_id |-> r.rid,
                                                    wa_id |-> r.wa]}
                             ELSE recipients
            /\ wk' = [wk EXCEPT ![w] = r2]
            /\ Deliver(w, r2)
    /\ UNCHANGED <<fn, arg, ret, today, shelf, memo, readings, budget, online, concurrent>>

\* ------------------------------------------------------------ the reply
\* the built-in quotes of random_zen_quotes_service, by their first words
jft == << <<"*", "JUST FOR TODAY", "*", " ", "my thoughts will be on my recovery">>,
          <<"*", "JUST FOR TODAY", "*", " ", "I will have faith in someone in NA">>,
          <<"*", "JUST FOR TODAY", "*", " ", "I will have a program">>,
          <<"*", "JUST FOR TODAY", "*", ",", " ", "through NA">>,
          <<"*", "JUST FOR TODAY", "*", " ", "I will be unafraid">> >>

\* bodies the quote API can answer with status 200
ZenResponses == {[q |-> <<" ", "Be here now", " ">>, a |-> <<"Ram Dass">>]}

\* f"_*{q.strip()}*_\n - _{a.strip()}_"
zen_quote(resp) ==
    <<"_", "*">> \o Strip(resp.q) \o <<"*", "_", "\n", " ", "-", " ", "_">> \o Strip(resp.a) \o <<"_">>

\* process_whatsapp_message, responses non-empty: one send_message per response, in order
send_responses(w) ==
    /\ wk[w].pc = "respond"
    /\ wk[w].contents # << >>
    /\ wk' = [wk EXCEPT ![w].pc = "done", ![w].sent = wk[w].contents, ![w].status = "ok"]
    /\ UNCHANGED <<fn, arg, ret, today, shelf, memo, readings, recipients, budget, faults, online, concurrent, delivered>>

\* process_whatsapp_message, responses empty: generate_random_zen_quote, then one send_message
send_random_zen_quote(w) ==
    /\ wk[w].pc = "respond"
    /\ wk[w].contents = << >>
    /\ \/ \* requests.get raises (network error or timeout): nothing catches it
          wk' = [wk EXCEPT ![w].pc = "done", ![w].quote = "neterr", ![w].status = "raised"]
       \/ \E i \in 1..Len(jft) :
            \* status_code != 200: random.choice(jft)
            wk' = [wk EXCEPT ![w].pc = "done", ![w].quote = "non200",
                             ![w].sent = <<jft[i]>>, ![w].status = "ok"]
       \/ \E resp \in ZenResponses :
            wk' = [wk EXCEPT ![w].pc = "done", ![w].quote = "ok200",
                             ![w].sent = <<zen_quote(resp)>>, ![w].status = "ok"]
    /\ UNCHANGED <<fn, arg, ret, today, shelf, memo, readings, recipients, budget, faults, online, concurrent, delivered>>

\* ------------------------------------------------------- periodic scrape
\* scrape_daily_readings with the application handle set, up to the loop
StartScrapeDaily(w) ==
    /\ CanStart(w)
    /\ budget' = budget - 1
    /\ wk' = [wk EXCEPT ![w] = [IdleWorker EXCEPT !.op = "periodic", !.pc = "sd_retrieve",
                                                  !.serial = budget,
                                                  !.key = DR_KEY, !.status = "running"]]
    /\ UNCHANGED <<fn, arg, ret, today, shelf, memo, readings, recipients, faults, online, concurrent, delivered>>

\* scrape_daily_readings, one turn of the loop up to the decision to scrape
ScrapeDailyRetrieve(w) ==
    /\ wk[w].pc = "sd_retrieve"
    /\ \E hit \in BOOLEAN :
         /\ hit => CanHit(wk[w].key)
         /\ LET rs == retrieve_readings(wk[w].key, hit)
            IN /\ wk' = [wk EXCEPT ![w] = IF ~HasEntry(rs, strftime(today))
                                          THEN [wk[w] EXCEPT !.pc = "scrape"]
                                          ELSE Advance(wk[w])]
               /\ memo' = memoize(w, wk[w].key, hit)
    /\ UNCHANGED <<fn, arg, ret, today, shelf, readings, recipients, budget, faults, online, concurrent, delivered>>

\* ------------------------------------------- process_and_store_reading
\* process_and_store_reading(reading_type, wa_id) up to the scrape; the scrape is
\* followed by store_reading_with_recipient on the parsed text
StartProcessAndStore(w, reading_type, wa_id) ==
    /\ CanStart(w)
    /\ budget' = budget - 1
    /\ wk' = [wk EXCEPT ![w] = [IdleWorker EXCEPT !.op = "pasr", !.pc = "scrape",
                                                  !.serial = budget,
                                                  !.key = reading_type, !.wa = wa_id,
                                                  !.status = "running"]]
    /\ UNCHANGED <<fn, arg, ret, today, shelf, memo, readings, recipients, faults, online, concurrent, delivered>>

\* ------------------------------------------------------------------- spec
Next ==
    \/ \E w \in Workers, wa_id \in WaIds : StartMessage(w, wa_id)
    \/ \E w \in Workers : ProcessReadingRetrieve(w)
    \/ \E w \in Workers : extract_daily_reflection(w)
    \/ \E w \in Workers : parse_jft_page(w)
    \/ \E w \in Workers : parse_spad_page(w)
    \/ \E w \in Workers : store_reading_dict_query(w)
    \/ \E w \in Workers : store_reading_dict_commit(w)
    \/ \E w \in Workers : add_recipient_shelf(w)
    \/ \E w \in Workers : add_recipient_lookup(w)
    \/ \E w \in Workers : add_recipient_to_reading_query(w)
    \/ \E w \in Workers : add_recipient_to_reading_commit(w)
    \/ \E w \in Workers : send_responses(w)
    \/ \E w \in Workers : send_random_zen_quote(w)
    \/ \E w \in Workers : StartScrapeDaily(w)
    \/ \E w \in Workers : ScrapeDailyRetrieve(w)
    \/ \E w \in Workers, reading_type \in Types, wa_id \in WaIds :
         StartProcessAndStore(w, reading_type, wa_id)

Spec == Init /\ [][Next]_vars
ConcSpec == InitConc /\ [][Next]_vars

TypeOK ==
    /\ today \in Days
    /\ budget \in 0..(MaxOps + MaxConcOps)
    /\ \A w \in Workers : wk[w].op \in {"idle", "msg", "periodic", "pasr"}

\* ------------------------------------------------------------ properties
TodayStr == strftime(today)
StorePcs == {"sr_query", "sr_commit", "swr_query", "swr_commit"}

\* the shelf holds text for (key, today)
HasText(key) == HasEntry(shelf[key], TodayStr) /\ shelf[key][TodayStr].text # << >>

\* in this step process_reading of worker w returns text to generate_daily_reading_responses
ReturnsText(w) ==
    /\ wk[w].op = "msg"
    /\ wk[w].key \in Types
    /\ wk[w].results[wk[w].key] = "pending"
    /\ wk'[w].results[wk[w].key] = "text"

\* in this step store_reading_dict of worker w returns or raises
StoreEnds(w) == wk[w].pc \in StorePcs /\ wk'[w].pc \notin StorePcs

\* C1: at-most-once delivery.  For a fixed (reading_type, today, wa_id) the text is returned
\* to the caller at most once: process_reading never returns text for a (key, wa_id) for
\* which it has returned text before.
C1_AtMostOnceDelivery ==
    [][\A w \in Workers : ReturnsText(w) => <<wk[w].key, wk[w].wa>> \notin delivered]_vars

\* table recipients holds at most one row per (reading_id, wa_id)
RecipientUnique ==
    \A x, y \in recipients : (x.reading_id = y.reading_id /\ x.wa_id = y.wa_id) => x = y

\* C2: recipient uniqueness when calls do not overlap.  Table recipients holds at most one
\* row per (reading_id, wa_id), and add_recipient_to_reading for a pair that has a row
\* returns that row and inserts nothing.
C2_RecipientUnique ==
    /\ []RecipientUnique
    /\ [][\A w \in Workers :
            (/\ wk[w].pc \in {"ar_query", "swr_rquery"}
             /\ RecipientRows(wk[w].rid, wk[w].wa) # {}
             /\ wk'[w] # wk[w])
            => (recipients' = recipients /\ wk'[w].addRes = "existing")]_vars
\* a second add for a pair that has a row has returned the existing row
C2_Witness == \E w \in Workers : wk[w].addRes = "existing" /\ RecipientRows(wk[w].rid, wk[w].wa) # {}

\* table readings holds at most one row per (reading_type, date)
ReadingUnique ==
    \A x, y \in readings : (x.reading_type = y.reading_type /\ x.date = y.date) => x = y

\* C3: reading uniqueness and insert idempotence when calls do not overlap.  Table readings
\* holds at most one row per (reading_type, date); a store_reading_dict call that returns a
\* row returns the row of the dict's (reading_type, date), and when such a row existed before
\* the call it returns that row and inserts nothing.
C3_ReadingUniqueIdempotent ==
    /\ []ReadingUnique
    /\ [][\A w \in Workers :
            (StoreEnds(w) /\ wk'[w].storeRes \in {"existing", "inserted"})
            => LET d == wk[w].dict
                   before == ReadingRows(d.reading_type, d.date)
               IN /\ \E row \in readings' :
                       /\ row.id = wk'[w].stored
                       /\ row.reading_type = d.reading_type
                       /\ row.date = d.date
                  /\ before # {} => (readings' = readings /\ wk'[w].stored \in {x.id : x \in before})]_vars
\* a second store_reading_dict for a stored (reading_type, date) has returned the first row
C3_Witness ==
    \E w \in Workers : wk[w].storeRes = "existing" /\ wk[w].stored \in {x.id : x \in readings}

\* the Reading of (key, today) has a Recipient row for wa_id
HasRecipientRow(rs, xs, key, wa_id) ==
    \E r \in rs, x \in xs :
        /\ r.reading_type = key
        /\ r.date = TodayStr
        /\ x.reading_id = r.id
        /\ x.wa_id = wa_id

\* C4: delivery records the recipient.  When process_reading(key, wa_id, today) returns text,
\* no Recipient row existed for the Reading of (key, today) and wa_id, and the database has
\* failed no commit, then on return table recipients holds a row for the Reading of
\* (key, today) and wa_id.
C4_DeliveryRecordsRecipient ==
    [][\A w \in Workers :
         (/\ ReturnsText(w)
          /\ faults' = MaxDbFaults
          /\ ~HasRecipientRow(readings, recipients, wk[w].key, wk[w].wa))
         => HasRecipientRow(readings', recipients', wk[w].key, wk[w].wa)]_vars

\* C5: failure isolation.  When the processing of one source raises, the loop of
\* generate_daily_reading_responses goes on with the next source, the call returns with all
\* three sources evaluated, and the text of every source that returned one is in the list.
C5_FailureIsolation ==
    \A w \in Workers :
        (wk[w].op = "msg" /\ \E k \in Types : wk[w].results[k] = "raised")
        => /\ wk[w].pc \in {"respond", "done"} => \A k \in Types : wk[w].results[k] # "pending"
           /\ wk[w].pc \notin {"respond", "done"} => (wk[w].key \in Types /\ wk[w].results[wk[w].key] = "pending")
           /\ \A k \in Types : wk[w].results[k] = "text"
                => \E i \in 1..Len(wk[w].contents) : wk[w].contents[i] = shelf[k][TodayStr].text
\* jft raised, dr and spad returned text, and the call has returned both
C5_Witness ==
    \E w \in Workers :
        /\ wk[w].pc = "done"
        /\ wk[w].results = [k \in Types |-> IF k = JFT_KEY THEN "raised" ELSE "text"]
        /\ Len(wk[w].sent) = 2

\* the texts of the sources that returned one, in the order of reading_processors
TextsInOrder(r) ==
    Join([i \in 1..Len(Order) |->
            IF r.results[Order[i]] = "text" THEN <<shelf[Order[i]][TodayStr].text>> ELSE << >>])

\* C6: fixed reply order.  The list of generate_daily_reading_responses holds the texts of
\* the sources that returned one in the order dr, jft, spad, and process_whatsapp_message
\* sends them in that order.
C6_FixedReplyOrder ==
    \A w \in Workers :
        wk[w].op = "msg"
        => /\ wk[w].contents = TextsInOrder(wk[w])
           /\ (wk[w].pc = "done" /\ wk[w].contents # << >>) => wk[w].sent = wk[w].contents
\* all three sources returned text and the three messages are sent
C6_Witness ==
    \E w \in Workers :
        /\ wk[w].pc = "done"
        /\ \A k \in Types : wk[w].results[k] = "text"
        /\ Len(wk[w].sent) = 3

\* the quotes of list jft
BuiltinQuotes == {jft[i] : i \in 1..Len(jft)}

\* C7: fallback.  When generate_daily_reading_responses returns an empty list, exactly one
\* substitute message is sent; when the quote fetch fails (status other than 200, or a
\* network error) it is one of the built-in quotes and the handler does not raise.
C7_FallbackQuote ==
    \A w \in Workers :
        (wk[w].op = "msg" /\ wk[w].pc = "done" /\ wk[w].contents = << >>)
        => /\ Len(wk[w].sent) = 1
           /\ wk[w].quote \in {"non200", "neterr"}
                => (wk[w].sent[1] \in BuiltinQuotes /\ wk[w].status = "ok")

\* C8: lazy scrape trigger.  process_reading calls the scrape function only when the shelf
\* holds no text for (key, today): once a scrape has stored text, no later process_reading
\* for that key scrapes again.
C8_ScrapeOnlyWhenUncached ==
    [][\A w \in Workers :
         (wk[w].pc = "pr_retrieve" /\ wk'[w].pc = "scrape") => ~HasText(wk[w].key)]_vars

\* C9: concurrent scrapes collapse.  Under every interleaving of store_reading_dict calls,
\* table readings holds at most one row per (reading_type, date), and when a call ends
\* without a database failure the table holds exactly one row for the call's key.
C9_ConcurrentStoresCollapse ==
    /\ []ReadingUnique
    /\ [][\A w \in Workers :
            (StoreEnds(w) /\ wk'[w].storeRes # "dberror")
            => Cardinality({x \in readings' : x.reading_type = wk[w].dict.reading_type
                                               /\ x.date = wk[w].dict.date}) = 1]_vars
\* a store_reading_dict call has lost the race for its key and the table holds one row
C9_Witness ==
    \E w \in Workers : wk[w].storeRes = "integrity" /\ Cardinality(readings) = 1

\* C10: a duplicate write is not an error.  A store_reading_dict call whose commit finds a
\* row of its (reading_type, date), written by a racing call, returns that row and does not
\* raise.
C10_LoserReturnsExisting ==
    [][\A w \in Workers :
         (/\ wk[w].pc \in {"sr_commit", "swr_commit"}
          /\ ReadingRows(wk[w].dict.reading_type, wk[w].dict.date) # {}
          /\ wk'[w] # wk[w])
         => /\ wk'[w].storeRes = "existing"
            /\ wk'[w].stored \in {x.id : x \in ReadingRows(wk[w].dict.reading_type, wk[w].dict.date)}]_vars

\* C11: recipient uniqueness under concurrency.  Under every interleaving of
\* add_recipient_to_reading calls, no (reading_id, wa_id) has more than one row in table
\* recipients.
C11_ConcurrentRecipientUnique ==
    \A reading_id \in {x.reading_id : x \in recipients}, wa_id \in WaIds :
        Cardinality(RecipientRows(reading_id, wa_id)) <= 1

\* in this step store_reading of worker w writes today's entry of its key to the shelf
StoreReadingWrites(w) == wk[w].pc = "scrape" /\ wk'[w].pc = "sr_query"

\* C12: first writer wins in the cache.  When store_reading runs for a key whose entry for
\* today is in the shelf, the entry (text, recipients) written first is kept.
C12_FirstWriterWinsCache ==
    [][\A w \in Workers :
         (StoreReadingWrites(w) /\ HasEntry(shelf[wk[w].key], TodayStr))
         => shelf'[wk[w].key][TodayStr] = shelf[wk[w].key][TodayStr]]_vars

\* the wa_ids in the recipients list of today's shelf entry of key
ShelfRecipients(sh, key) ==
    IF HasEntry(sh[key], TodayStr)
    THEN {sh[key][TodayStr].recipients[i] : i \in 1..Len(sh[key][TodayStr].recipients)}
    ELSE {}

\* C13: recipients accumulate monotonically.  No step removes a wa_id from the recipients
\* list of today's shelf entry of a key, and no step removes a row of table recipients.
C13_RecipientsMonotone ==
    [][/\ \A key \in Types : ShelfRecipients(shelf, key) \subseteq ShelfRecipients(shelf', key)
       /\ recipients \subseteq recipients']_vars

\* ----------------------------------------- the functions called on their own
\* the body of parse_jft_page / parse_spad_page by key
page_text(key, table, d) ==
    IF key = JFT_KEY THEN jft_page_text(table, d) ELSE spad_page_text(table, d)

\* parse_jft_page / parse_spad_page under retry_on_failure, on the outcomes of the
\* successive GETs: each call of the body runs the retried parse_table, which takes
\* its GETs from position used on; the result holds the GETs made in all
RECURSIVE parse_page_from(_, _, _, _, _)
parse_page_from(key, outcomes, d, attempt, used) ==
    LET t == retry_on_failure(SubSeq(outcomes, used + 1, used + READING_RETRY_ATTEMPTS))
        body == PageOutcome(page_text(key, [ok |-> t.ok, value |-> t.value], d))
        made == used + t.calls
    IN IF body.ok \/ attempt = READING_RETRY_ATTEMPTS - 1
       THEN [gets |-> made, ok |-> body.ok, value |-> body.value]
       ELSE parse_page_from(key, outcomes, d, attempt + 1, made)

parse_page(key, outcomes, d) == parse_page_from(key, outcomes, d, 0, 0)

\* the GETs one call of parse_jft_page / parse_spad_page can make
GetSlots == 1..(READING_RETRY_ATTEMPTS * READING_RETRY_ATTEMPTS)

\* a GET of the call: a request error, the page of the day, or a page with too few rows
CallGetOutcomes(d) ==
    {[ok |-> FALSE, value |-> << >>], [ok |-> TRUE, value |-> PageRows(d)],
     [ok |-> TRUE, value |-> SubSeq(PageRows(d), 1, 5)]}

\* the arguments of the calls: the outcomes of the GETs of a page scrape, each GET with
\* an outcome of its own, or every GET answered alike
GetsArgs ==
    {[kind |-> "gets", value |-> outcomes] : outcomes \in [GetSlots -> CallGetOutcomes(today)]}
    \cup {[kind |-> "gets", value |-> [i \in GetSlots |-> outcome]] : outcome \in GetOutcomes(today)}

FnInitShared ==
    /\ InitShared
    /\ concurrent = FALSE
    /\ faults = 0
    /\ online = Types
    /\ fn = "none"
    /\ ret = None

\* store_reading, the SQLite part with a working database: the text is parsed and
\* store_reading_dict inserts the row unless one of this date and type exists
store_reading_rows(reading_dict) ==
    IF existing_reading(reading_dict) # {} THEN readings
    ELSE readings \cup {Reading(NewId(readings), reading_dict)}

\* an entry whose quote begins with an emphasised word
EmphasisEntry(d) ==
    Anchor(ShortDate(d)) \o <<"\n", "\n", "*", "Heading", "*", "\n", "_", "*", "We", "*", " ", "can", "_", "\n",
                              "*", ENDASH, " ", "Book", "*", "\n", "Narrative", "\n",
                              "*", "Affirmation", "*", "\n", "\n">>

\* reflections files: today's entry is the last of the file; the entries hold emphasis
LastEntryFile == <<"pretext", "\n">> \o Entry(1, "Heading1") \o Entry(12, "Heading12")
EmphasisFile == <<"pretext", "\n">> \o EmphasisEntry(1) \o EmphasisEntry(12) \o Entry(13, "Heading13")

\* the arguments of the calls: the contents of the reflections file
ReflectionsArgs ==
    {[kind |-> "reflections", value |-> contents] :
        contents \in ReflectionsFiles \cup {LastEntryFile, EmphasisFile}}

\* parse_jft_page() or parse_spad_page() called once; a returning call has stored its text
CallParsePage(key) ==
    /\ fn = "none"
    /\ arg.kind = "gets"
    /\ LET res == parse_page(key, arg.value, today)
       IN /\ ret' = res
          /\ shelf' = IF res.ok THEN store_reading_shelf(res.value, key, strftime(today)) ELSE shelf
          /\ readings' = IF res.ok THEN store_reading_rows(ParsedDict[key][res.value]) ELSE readings
    /\ fn' = key
    /\ UNCHANGED <<arg, today, memo, recipients, wk, budget, faults, online, concurrent, delivered>>

\* extract_daily_reflection() called once; a returning call has stored its text
CallExtractDailyReflection ==
    /\ fn = "none"
    /\ arg.kind = "reflections"
    /\ LET today_readings == today_readings_of(arg.value, today)
       IN /\ ret' = today_readings
          /\ shelf' = IF today_readings = ValidationError THEN shelf
                      ELSE store_reading_shelf(today_readings, DR_KEY, strftime(today))
          /\ readings' = IF today_readings = ValidationError THEN readings
                         ELSE store_reading_rows(dr_loader(today_readings))
    /\ fn' = "extract_daily_reflection"
    /\ UNCHANGED <<arg, today, memo, recipients, wk, budget, faults, online, concurrent, delivered>>

CallParseJftPage == CallParsePage(JFT_KEY)
CallParseSpadPage == CallParsePage(SPAD_KEY)

\* the characters of the texts given to the parsers
ContentChars == {"_", "*", "a", " "}

RECURSIVE Strings(_)
\* the texts of n characters
Strings(n) ==
    IF n = 0 THEN {<< >>} ELSE {Append(s, c) : s \in Strings(n - 1), c \in ContentChars}

\* the arguments of the calls: any text of up to MaxContentLen characters
ContentArgs == {[kind |-> "content", value |-> s] : s \in UNION {Strings(n) : n \in 0..MaxContentLen}}

\* parse_reading_to_dict(content) of one of the three loader modules called once
CallLoader(key) ==
    /\ fn = "none"
    /\ arg.kind = "content"
    /\ ret' = reading_loaders(key, arg.value)
    /\ fn' = key \o "_loader"
    /\ UNCHANGED <<arg, today, shelf, memo, readings, recipients, wk, budget, faults, online, concurrent,
                   delivered>>

CallDrLoader == CallLoader(DR_KEY)
CallJftLoader == CallLoader(JFT_KEY)
CallSpadLoader == CallLoader(SPAD_KEY)

Loaders == {"dr_loader", "jft_loader", "spad_loader"}

\* what stands between the delimiters of a reading text
FieldPool ==
    {<<"a">>, <<"b">>, <<"d">>, <<"a", "b">>, <<" ", "c">>, <<"-", "d">>, <<ENDASH, "e">>}

\* a text in the markup of the dr parser: prefix, _*D*_, *H*, _Q_, the source S after the
\* en dash, the narrative N and the trailing *A*
dr_text(f) ==
    f.prefix \o Anchor(f.D) \o <<"\n", "\n", "*">> \o f.H \o <<"*", "\n", "_">> \o f.Q
             \o <<"_", "\n", "*", ENDASH, " ">> \o f.S \o <<"*", "\n">> \o f.N \o <<"\n", "*">> \o f.A \o <<"*">>

\* the arguments of the calls: the dr texts with pairwise distinct fields
DrTextArgs ==
    {[kind |-> "dr_text", value |-> dr_text(f), fields |-> f] :
        f \in {g \in [prefix : {<< >>, <<"a", "\n">>}, D : FieldPool, H : FieldPool, Q : FieldPool,
                       S : FieldPool, N : FieldPool, A : FieldPool] :
                 Cardinality({g.D, g.H, g.Q, g.S, g.N, g.A}) = 6}}

\* parse_reading_to_dict(content) of daily_reading_loader called once on a dr text
CallDrLoaderOnText ==
    /\ fn = "none"
    /\ arg.kind = "dr_text"
    /\ ret' = dr_loader(arg.value)
    /\ fn' = "dr_loader"
    /\ UNCHANGED <<arg, today, shelf, memo, readings, recipients, wk, budget, faults, online, concurrent,
                   delivered>>

\* the footer row of the jft page: one line, two lines (a br tag), two spaces, a dash
JftFooters ==
    {<<"Just for Today:", " ", "Footer">>,
     <<"Just for Today:", " ", "I", " ", "will", "\n", "let", " ", "go">>,
     <<"Just for Today:", " ", "I", " ", " ", "will">>,
     <<"Just for Today:", " ", "-", " ", "Footer">>}

\* the arguments of the calls: the texts that parse_jft_page stores for those footers
JftTextArgs ==
    {[kind |-> "jft_text",
      value |-> jft_page_text([ok |-> TRUE, value |-> [PageRows(today) EXCEPT ![7] = footer]], today)] :
        footer \in JftFooters}

\* parse_reading_to_dict(content) of just_for_today_loader called once on a stored jft text
CallJftLoaderOnText ==
    /\ fn = "none"
    /\ arg.kind = "jft_text"
    /\ ret' = jft_loader(arg.value)
    /\ fn' = "jft_loader"
    /\ UNCHANGED <<arg, today, shelf, memo, readings, recipients, wk, budget, faults, online, concurrent,
                   delivered>>

\* ------------- generate_daily_reading_responses as a function of its arguments
\* the store: the shelf, the memoized retrieve_readings values and the two tables
EmptyStore ==
    [shelf |-> [k \in Types |-> << >>],
     memo |-> [k \in Types |-> [valid |-> FALSE, value |-> << >>]],
     readings |-> {}, recipients |-> {}]

\* the behaviour of the sources during one call: what the scrape of each key returns or
\* raises, whether the commits of the database succeed, whether retrieve_readings hits
\* a memoized value
Behaviours ==
    [d \in Days |->
        [scrape : {f \in [Types -> UNION {ScrapeResults[k][d] : k \in Types}] :
                      \A k \in Types : f[k] \in ScrapeResults[k][d]},
         db_ok : BOOLEAN, hit : BOOLEAN]]

\* db_service.store_reading_dict(reading_dict, **keywords) on table readings rs, the
\* commit succeeding or not: the method declares reading_dict only, and Python raises
\* TypeError for a keyword the method does not declare, before the body runs; the
\* table left, whether the call raised, the id of the row
store_reading_dict_called(rs, reading_dict, keywords, db_ok) ==
    LET existing == {r \in rs : r.date = reading_dict.date /\ r.reading_type = reading_dict.reading_type}
    IN IF ~(keywords \subseteq {"reading_dict"}) THEN [readings |-> rs, raised |-> TRUE, id |-> 0]
       ELSE IF existing # {} THEN [readings |-> rs, raised |-> FALSE, id |-> First(existing).id]
       ELSE IF ~db_ok THEN [readings |-> rs, raised |-> TRUE, id |-> 0]
       ELSE [readings |-> rs \cup {Reading(NewId(rs), reading_dict)}, raised |-> FALSE, id |-> NewId(rs)]

\* ReadingStorage.store_reading(file_text, key, today) on the store
store_reading_on(st, file_text, key, d, beh) ==
    [st EXCEPT !.shelf[key] = (d :> NewEntry(file_text)) @@ @,
               !.readings = store_reading_dict_called(@, ParsedDict[key][file_text], {}, beh.db_ok).readings]

\* ReadingStorage.add_recipient(today, key, wa_id) on the store: the store left and
\* whether the call raised
add_recipient_on(st, d, key, wa_id, beh) ==
    IF ~HasEntry(st.shelf[key], d) THEN [st |-> st, raised |-> TRUE]
    ELSE LET s1 == [st EXCEPT !.shelf[key][d].recipients = Append(@, wa_id)]
             reading == {r \in s1.readings : r.date = d /\ r.reading_type = key}
             rid == First(reading).id
             existing_rows == {x \in s1.recipients : x.reading_id = rid /\ x.wa_id = wa_id}
         IN IF reading = {} \/ existing_rows # {} THEN [st |-> s1, raised |-> FALSE]
            ELSE IF ~beh.db_ok THEN [st |-> s1, raised |-> TRUE]
            ELSE [st |-> [s1 EXCEPT !.recipients =
                              @ \cup {[id |-> NewId(s1.recipients), reading_id |-> rid, wa_id |-> wa_id]}],
                  raised |-> FALSE]

\* the end of process_reading, on the store s2 left by the scrape and its store_reading:
\* a non-empty reading_text is returned after add_recipient
process_reading_text(key, wa_id, d, s2, reading_text, beh) ==
    LET added == add_recipient_on(s2, d, key, wa_id, beh)
    IN IF reading_text = << >> THEN [st |-> s2, text |-> << >>, raised |-> FALSE]
       ELSE [st |-> added.st, text |-> reading_text, raised |-> added.raised]

\* process_reading(key, wa_id, today, process_func, storage) on the store: the store
\* left, the text returned and whether the call raised
process_reading_on(key, wa_id, d, st, beh) ==
    LET hit == beh.hit /\ st.memo[key].valid
        rs == IF hit THEN st.memo[key].value ELSE st.shelf[key]
        s1 == IF hit THEN st ELSE [st EXCEPT !.memo[key] = [valid |-> TRUE, value |-> st.shelf[key]]]
        cached == IF HasEntry(rs, d) THEN rs[d].text ELSE << >>
        scraped == beh.scrape[key]
    IN IF cached = << >> /\ scraped = ValidationError
       THEN [st |-> s1, text |-> << >>, raised |-> TRUE]
       ELSE process_reading_text(key, wa_id, d,
                                 IF cached = << >> THEN store_reading_on(s1, scraped, key, d, beh) ELSE s1,
                                 IF cached = << >> THEN scraped ELSE cached, beh)

RECURSIVE reading_processors_from(_, _, _, _, _, _)
\* the end of one turn of the loop over reading_processors: p is what process_reading
\* left, a text returned without an exception is appended to contents
reading_processors_turn(i, wa_id, d, beh, contents, p) ==
    reading_processors_from(i + 1, wa_id, d, p.st, beh,
        IF ~p.raised /\ p.text # << >> THEN Append(contents, p.text) ELSE contents)

\* the loop over reading_processors from the i-th key on
reading_processors_from(i, wa_id, d, st, beh, contents) ==
    IF i > Len(Order) THEN [contents |-> contents, st |-> st]
    ELSE reading_processors_turn(i, wa_id, d, beh, contents,
                                 process_reading_on(Order[i], wa_id, d, st, beh))

\* variant: a message that names a reading type gets that reading only
generate_daily_reading_responses_by_body(message_body, wa_id, d, st, beh) ==
    LET all == reading_processors_from(1, wa_id, d, st, beh, << >>)
        one == process_reading_on(message_body[1], wa_id, d, st, beh)
    IN IF message_body # << >> /\ message_body[1] \in Types
       THEN [contents |-> IF ~one.raised /\ one.text # << >> THEN <<one.text>> ELSE << >>, st |-> one.st]
       ELSE all

\* generate_daily_reading_responses(message_body, wa_id): the list returned and the
\* store left
generate_daily_reading_responses(message_body, wa_id, d, st, beh) ==
    reading_processors_from(1, wa_id, d, st, beh, << >>)

\* the stores a call can start from: the empty store and the stores an earlier call left
Stores ==
    [d \in Days |->
        {EmptyStore} \cup {generate_daily_reading_responses(<<"hi">>, "wa1", strftime(d), EmptyStore, beh).st :
                              beh \in Behaviours[d]}]

\* the arguments of the calls: two message bodies, and the wa_id, the store and the
\* behaviour of the sources that the two runs share
BodiesArgs ==
    {[kind |-> "bodies", value |-> b, wa_id |-> wa_id, store |-> st, beh |-> beh] :
        b \in {p \in {<<"hi">>, <<"dr">>, << >>} \X {<<"hi">>, <<"dr">>, << >>} : p[1] # p[2]}, wa_id \in WaIds, st \in Stores[today],
        beh \in Behaviours[today]}

\* the arguments of the calls: the key, the wa_id, the store and the behaviour of the
\* sources of one call of process_reading
ProcessReadingArgs ==
    {[kind |-> "process_reading", key |-> key, wa_id |-> wa_id, store |-> st, beh |-> beh] :
        key \in Types, wa_id \in WaIds, st \in Stores[today], beh \in Behaviours[today]}

\* process_reading(key, wa_id, today, process_func, storage) called once
CallProcessReading ==
    /\ fn = "none"
    /\ arg.kind = "process_reading"
    /\ ret' = process_reading_on(arg.key, arg.wa_id, strftime(today), arg.store, arg.beh)
    /\ fn' = "process_reading"
    /\ UNCHANGED <<arg, today, shelf, memo, readings, recipients, wk, budget, faults, online, concurrent,
                   delivered>>

\* generate_daily_reading_responses run once for each of the two bodies
CallGenerateDailyReadingResponses ==
    /\ fn = "none"
    /\ arg.kind = "bodies"
    /\ ret' = [i \in {1, 2} |->
                generate_daily_reading_responses(arg.value[i], arg.wa_id, strftime(today), arg.store, arg.beh)]
    /\ fn' = "generate_daily_reading_responses"
    /\ UNCHANGED <<arg, today, shelf, memo, readings, recipients, wk, budget, faults, online, concurrent,
                   delivered>>

\* the arguments of the calls: the outcomes of the successive calls of a wrapped
\* function, each with its own result or exception, for 1 to MaxAttempts configured attempts
OutcomesArgs ==
    {[kind |-> "outcomes", value |-> [i \in 1..n |-> [ok |-> oks[i], value |-> <<"call", i>>]]] :
        n \in 1..MaxAttempts, oks \in [1..MaxAttempts -> BOOLEAN]}

\* a function wrapped by retry_on_failure called once, with Len(arg.value) attempts
CallRetryOnFailure ==
    /\ fn = "none"
    /\ arg.kind = "outcomes"
    /\ ret' = retry_from(arg.value, 0, Len(arg.value))
    /\ fn' = "retry_on_failure"
    /\ UNCHANGED <<arg, today, shelf, memo, readings, recipients, wk, budget, faults, online, concurrent,
                   delivered>>

\* ------------------ store_reading_with_recipient called on the two tables
\* add_recipient_to_reading(reading_id, wa_id) on table recipients xs, the commit
\* succeeding or not: the table left and whether the call raised
add_recipient_to_reading_on(xs, reading_id, wa_id, db_ok) ==
    IF {x \in xs : x.reading_id = reading_id /\ x.wa_id = wa_id} # {} THEN [recipients |-> xs, raised |-> FALSE]
    ELSE IF ~db_ok THEN [recipients |-> xs, raised |-> TRUE]
    ELSE [recipients |-> xs \cup {[id |-> NewId(xs), reading_id |-> reading_id, wa_id |-> wa_id]},
          raised |-> FALSE]

\* store_reading_with_recipient(reading_dict, wa_id) on the tables rs and xs, with the
\* outcomes of the commits it makes: store_reading_dict commits the Reading, then
\* add_recipient_to_reading commits the Recipient; a failed commit is rolled back and
\* re-raised
store_reading_with_recipient(rs, xs, reading_dict, wa_id, commits) ==
    LET existing == {r \in rs : r.date = reading_dict.date /\ r.reading_type = reading_dict.reading_type}
        id == IF existing # {} THEN First(existing).id ELSE NewId(rs)
        rs1 == IF existing # {} THEN rs ELSE rs \cup {Reading(id, reading_dict)}
        added == add_recipient_to_reading_on(xs, id, wa_id, commits[IF existing # {} THEN 1 ELSE 2])
    IN IF existing = {} /\ ~commits[1]
       THEN [readings |-> rs, recipients |-> xs, raised |-> TRUE, created |-> FALSE, id |-> 0, wa_id |-> wa_id]
       ELSE [readings |-> rs1, recipients |-> added.recipients, raised |-> added.raised,
             created |-> existing = {}, id |-> id, wa_id |-> wa_id]

\* the arguments of the calls: the dictionary of a scraped text
ReadingDictArgs ==
    UNION {{[kind |-> "reading_dict", value |-> ParsedDict[k][file_text]] : file_text \in ScrapedTexts(k)} :
              k \in Types}

\* store_reading_with_recipient(reading_dict, wa_id) called, for the first time or again
CallStoreReadingWithRecipient ==
    /\ arg.kind = "reading_dict"
    /\ budget > 0
    /\ \E wa_id \in WaIds, commits \in [{1, 2} -> BOOLEAN] :
         LET res == store_reading_with_recipient(readings, recipients, arg.value, wa_id, commits)
         IN /\ readings' = res.readings
            /\ recipients' = res.recipients
            /\ ret' = [raised |-> res.raised, created |-> res.created, id |-> res.id, wa_id |-> res.wa_id]
    /\ budget' = budget - 1
    /\ fn' = "store_reading_with_recipient"
    /\ UNCHANGED <<arg, today, shelf, memo, wk, faults, online, concurrent, delivered>>

\* ------------------------------ process_readings: the shelf moved to the database
RECURSIVE recipients_list_from(_, _, _, _, _)
\* the loop over recipients_list from the i-th recipient on; every recipient that
\* add_recipient wrote has a wa_id and a sent value; an exception skips the recipient
recipients_list_from(i, recipients_list, xs, reading_id, db_ok) ==
    IF i > Len(recipients_list) THEN xs
    ELSE recipients_list_from(i + 1, recipients_list,
             add_recipient_to_reading_on(xs, reading_id, recipients_list[i], db_ok).recipients,
             reading_id, db_ok)

\* what process_readings does with parsed_result, the dictionary of the text of
\* date_data: a dictionary that holds a key is true, is kept in results and is saved
\* with its recipients by store_reading_dict(parsed_result, created_at=extract_date);
\* acc holds the two tables, the keys of results and db_save_count
process_readings_parsed(acc, date_key, reading_type, date_data, parsed_result, db_ok) ==
    LET stored_reading == store_reading_dict_called(acc.readings, parsed_result, {"created_at"}, db_ok)
        a1 == [acc EXCEPT !.results = @ \cup {<<date_key, reading_type>>}]
    IN IF DOMAIN parsed_result = {} THEN acc
       ELSE IF stored_reading.raised THEN a1
       ELSE [a1 EXCEPT !.readings = stored_reading.readings,
                       !.db_save_count = @ + 1,
                       !.recipients = recipients_list_from(1, date_data.recipients, @,
                                                           stored_reading.id, db_ok)]

RECURSIVE all_date_keys_from(_, _, _, _, _)
\* the loop over all_date_keys and, within a date, over reading_types, from the i-th
\* pair (date_key, reading_type) on: an entry with a text is parsed
all_date_keys_from(i, all_date_keys, acc, sh, db_ok) ==
    IF i > Len(all_date_keys) * Len(Order) THEN acc
    ELSE LET date_key == all_date_keys[((i - 1) \div Len(Order)) + 1]
             reading_type == Order[((i - 1) % Len(Order)) + 1]
         IN all_date_keys_from(i + 1, all_date_keys,
                IF ~HasEntry(sh[reading_type], date_key) \/ sh[reading_type][date_key].text = << >> THEN acc
                ELSE process_readings_parsed(acc, date_key, reading_type, sh[reading_type][date_key],
                                             ParsedDict[reading_type][sh[reading_type][date_key].text], db_ok),
                sh, db_ok)

\* process_readings() on shelf sh and the tables rs and xs, over the date keys of the
\* shelf in chronological order: the tables left, the readings extracted and the count
\* of readings saved
process_readings(sh, rs, xs, db_ok) ==
    all_date_keys_from(1, SelectSeq([d \in 1..31 |-> strftime(d)],
                                    LAMBDA k : \E key \in Types : HasEntry(sh[key], k)),
                       [readings |-> rs, recipients |-> xs, results |-> {}, db_save_count |-> 0], sh, db_ok)

\* the arguments of the calls: a shelf that the handler left, the tables it left with it
\* or the tables of a new database, and whether the database is reachable
ShelfArgs ==
    {[kind |-> "shelf", shelf |-> st.shelf, readings |-> t.readings, recipients |-> t.recipients,
      db_ok |-> db_ok] :
        st \in Stores[today], t \in {EmptyStore} \cup Stores[today], db_ok \in BOOLEAN}

\* process_readings() called once
CallProcessReadings ==
    /\ fn = "none"
    /\ arg.kind = "shelf"
    /\ ret' = process_readings(arg.shelf, arg.readings, arg.recipients, arg.db_ok)
    /\ fn' = "process_readings"
    /\ UNCHANGED <<arg, today, shelf, memo, readings, recipients, wk, budget, faults, online, concurrent,
                   delivered>>

FnInit ==
    /\ FnInitShared
    /\ \/ arg \in GetsArgs
       \/ arg \in BodiesArgs
       \/ arg \in OutcomesArgs
       \/ arg \in ProcessReadingArgs
       \/ arg \in ReadingDictArgs
       \/ arg \in ShelfArgs
       \/ arg \in ContentArgs /\ today = 1
       \/ arg \in DrTextArgs /\ today = 1
       \/ arg \in JftTextArgs
       \/ arg \in ReflectionsArgs
    /\ budget = IF arg.kind = "reading_dict" THEN MaxStoreCalls ELSE 0

FnNext ==
    \/ CallRetryOnFailure
    \/ CallProcessReading
    \/ CallStoreReadingWithRecipient
    \/ CallProcessReadings
    \/ CallGenerateDailyReadingResponses
    \/ CallExtractDailyReflection
    \/ CallParseJftPage
    \/ CallParseSpadPage
    \/ CallDrLoader
    \/ CallJftLoader
    \/ CallSpadLoader
    \/ CallDrLoaderOnText
    \/ CallJftLoaderOnText

FnSpec == FnInit /\ [][FnNext]_vars

\* C14: bounded retry.  In one call of parse_jft_page or parse_spad_page during which every
\* GET fails, at most READING_RETRY_ATTEMPTS GETs are made, and the call raises.
C14_BoundedRetry ==
    (/\ fn \in {JFT_KEY, SPAD_KEY}
     /\ arg.kind = "gets"
     /\ \A i \in 1..ret.gets : ~arg.value[i].ok)
    => (ret.gets <= READING_RETRY_ATTEMPTS /\ ~ret.ok)

\* C15: Reading records are immutable.  No step deletes a row of table readings or changes
\* one of its fields.
C15_ReadingsImmutable ==
    [][\A row \in readings : row \in readings']_vars
\* store_reading_dict was called with another heading for a stored (reading_type, date)
\* and has returned the stored row
C15_Witness ==
    \E w \in Workers, row \in readings :
        /\ wk[w].storeRes = "existing"
        /\ wk[w].stored = row.id
        /\ wk[w].dict.reading_type = row.reading_type
        /\ wk[w].dict.date = row.date
        /\ wk[w].dict.heading # row.heading

\* the text holds a date anchor: _* , one or more characters other than *, then *_
HasDateAnchor(content) ==
    \E i, k \in 1..Len(content) :
        /\ k >= i + 3
        /\ k + 1 <= Len(content)
        /\ content[i] = "_"
        /\ content[i + 1] = "*"
        /\ content[k] = "*"
        /\ content[k + 1] = "_"
        /\ \A j \in (i + 2)..(k - 1) : content[j] # "*"

\* C16: the parsers never throw.  Each of the three parse_reading_to_dict variants returns a
\* record for every text, and for a text without a date anchor the record has date = "".
C16_ParsersNeverThrow ==
    fn \in Loaders
    => /\ DOMAIN ret = {"reading_type", "date", "heading", "quote", "source", "narrative", "affirmation"}
       /\ ~HasDateAnchor(arg.value) => ret.date = << >>
\* a parser was given a text that opens an anchor and never closes it
C16_Witness ==
    /\ fn \in Loaders
    /\ Find(arg.value, <<"_", "*">>, 0) # -1
    /\ ~HasDateAnchor(arg.value)
    /\ ret.date = << >>

\* sub occurs in s
Contains(s, sub) == Find(s, sub, 0) # -1

\* C17: the dr parser on well-formed text.  For a dr text with pairwise distinct fields free
\* of * and _, the dr parser returns date = D, heading = H, quote = Q, source = S,
\* affirmation = A and a narrative that contains N.
C17_DrWellFormed ==
    (fn = "dr_loader" /\ arg.kind = "dr_text")
    => LET f == arg.fields
       IN /\ ret.date = f.D
          /\ ret.heading = f.H
          /\ ret.quote = f.Q
          /\ ret.source = f.S
          /\ ret.affirmation = f.A
          /\ Contains(ret.narrative, f.N)

\* 0-based position of the fields H, S and A in dr_text(f)
HeadingAt(f) == Len(f.prefix) + Len(Anchor(f.D)) + 3
SourceAt(f) == HeadingAt(f) + Len(f.H) + 3 + Len(f.Q) + 5
AffirmationAt(f) == SourceAt(f) + Len(f.S) + 2 + Len(f.N) + 2

\* the fields of a dr text that the first-occurrence lookups of the parser find where they
\* stand, and that the trimming and the cleaning of the parser leave as they are
Unambiguous(f) ==
    /\ \A x \in {f.D, f.H, f.Q, f.S, f.N, f.A} : x # << >> /\ Strip(x) = x
    /\ f.D[1] # ENDASH
    /\ f.H[1] # ENDASH
    /\ f.N[1] \notin {ENDASH, "-"}
    /\ \A i \in 1..Len(f.N) : f.N[i] # "\t" /\ (i > 1 => ~(f.N[i - 1] = " " /\ f.N[i] = " "))
    /\ Find(dr_text(f), f.H, 0) = HeadingAt(f)
    /\ Find(dr_text(f), f.S, 0) = SourceAt(f)
    /\ Find(dr_text(f), f.A, 0) = AffirmationAt(f)

\* C17, amended: for a dr text whose fields are free of * and _, have no white space at
\* their ends, do not start with a dash and do not occur in the text before their own
\* place, the dr parser returns exactly D, H, Q, S, N and A.
C17_DrWellFormedUnambiguous ==
    (fn = "dr_loader" /\ arg.kind = "dr_text" /\ Unambiguous(arg.fields))
    => ret = [reading_type |-> DR_KEY, date |-> arg.fields.D, heading |-> arg.fields.H,
              quote |-> arg.fields.Q, source |-> arg.fields.S, narrative |-> arg.fields.N,
              affirmation |-> arg.fields.A]
\* the dr parser was called on such a text with a prefix and a field of two characters
C17_Witness ==
    /\ fn = "dr_loader"
    /\ arg.kind = "dr_text"
    /\ Unambiguous(arg.fields)
    /\ arg.fields.prefix # << >>
    /\ arg.fields.A = <<"a", "b">>
    /\ ret.narrative = arg.fields.N

\* the text after the end of the last *...* match, trimmed, without a leading dash, the runs
\* of spaces and tabs made one space, the newlines kept
TextAfterLastStar(content) ==
    LET m == finditer(content, "*", 1)
    IN IF m = << >> THEN << >>
       ELSE sub_runs(sub_leading_dash(Strip(Slice(content, m[Len(m)].end, Len(content))), DR_DASHES),
                     BLANKS)

\* C18: the jft affirmation.  The affirmation of the jft parser is the text after the end of
\* the last *...* match, trimmed, with a leading dash removed and the runs of spaces and tabs
\* made one space, while the newlines inside it are kept.
C18_JftAffirmation ==
    (fn = "jft_loader" /\ arg.kind = "jft_text")
    => ret.affirmation = TextAfterLastStar(arg.value)

\* the text holds no span ch, one or more characters other than ch, ch
NoSpan(content, ch) ==
    ~\E i, k \in 1..Len(content) :
        /\ k >= i + 2
        /\ content[i] = ch
        /\ content[k] = ch
        /\ \A j \in (i + 1)..(k - 1) : content[j] # ch

\* C19: absent anchors default to empty.  Every parser returns a record; when the source or
\* the affirmation is absent the narrative is ""; in the jft and spad parsers, when the
\* quote is absent the source is "".
C19_AbsentAnchorsEmpty ==
    fn \in Loaders
    => /\ DOMAIN ret = {"reading_type", "date", "heading", "quote", "source", "narrative", "affirmation"}
       /\ (ret.source = << >> \/ ret.affirmation = << >>) => ret.narrative = << >>
       /\ NoSpan(arg.value, "*") => ret.narrative = << >>
       /\ (fn # "dr_loader" /\ (ret.quote = << >> \/ NoSpan(arg.value, "_"))) => ret.source = << >>
\* the jft or spad parser found a quote and a source and no affirmation
C19_Witness ==
    /\ fn \in {"jft_loader", "spad_loader"}
    /\ ret.quote # << >>
    /\ ret.source # << >>
    /\ ret.affirmation = << >>
    /\ ret.narrative = << >>

\* a date anchor _*Month Day*_ starts at position i of the text
DateAnchorAt(contents, i) == \E d \in 1..31 : MatchAt(contents, Anchor(ShortDate(d)), i)

\* the number of date anchors of the text
DateAnchors(contents) == Cardinality({i \in 0..(Len(contents) - 1) : DateAnchorAt(contents, i)})

\* today's entry: from today's anchor to just before the next date anchor, or to the end
TodayEntry(contents, d) ==
    LET start == Find(contents, Anchor(ShortDate(d)), 0)
        later == {i \in (start + 1)..(Len(contents) - 1) : DateAnchorAt(contents, i)}
        end == IF later = {} THEN Len(contents) ELSE CHOOSE i \in later : \A j \in later : i <= j
    IN Strip(Slice(contents, start, end))

\* C20: reflections extraction.  extract_daily_reflection returns, and stores under
\* (dr, today), the slice of the file from today's date anchor to just before the next date
\* anchor, or to the end of the file, so the result holds exactly one date anchor; when
\* today's anchor is absent it raises ValidationError and stores nothing.
C20_ReflectionsExtraction ==
    fn = "extract_daily_reflection"
    => IF Find(arg.value, Anchor(ShortDate(today)), 0) = -1
       THEN /\ ret = ValidationError
            /\ shelf[DR_KEY] = << >>
            /\ readings = {}
       ELSE /\ ret = TodayEntry(arg.value, today)
            /\ DateAnchors(ret) = 1
            /\ HasEntry(shelf[DR_KEY], strftime(today))
            /\ shelf[DR_KEY][strftime(today)].text = ret

\* the rows that the scrape of a source reads: jft rows 0 to 6, spad rows 0 to 7
RowsRead(key) == IF key = JFT_KEY THEN 7 ELSE 8

\* C21: row-count validation.  When every page fetched during a call of parse_jft_page or
\* parse_spad_page has fewer rows than the source reads, the call ends by raising
\* ValidationError and writes no shelf entry and no Reading row for the source.
C21_RowCountValidation ==
    (/\ fn \in {JFT_KEY, SPAD_KEY}
     /\ \A i \in 1..ret.gets : arg.value[i].ok => Len(arg.value[i].value) < RowsRead(fn))
    => /\ ~ret.ok
       /\ ret.value = ValidationError
       /\ shelf[fn] = << >>
       /\ readings = {}
\* a jft page of six rows and a spad page of seven rows were fetched at every GET
C21_Witness ==
    /\ fn \in {JFT_KEY, SPAD_KEY}
    /\ \A i \in GetSlots : arg.value[i].ok /\ Len(arg.value[i].value) = RowsRead(fn) - 1
    /\ ~ret.ok

\* C22: message_body does not influence the outcome.  Two runs of
\* generate_daily_reading_responses from the same store, with the same wa_id and the same
\* behaviour of the sources, and with two different message bodies, return the same list
\* and leave the same store.
C22_BodyIndependence ==
    fn = "generate_daily_reading_responses"
    => (ret[1].contents = ret[2].contents /\ ret[1].st = ret[2].st)
\* two runs with the bodies "dr" and "hi" have scraped and returned the three texts
C22_Witness ==
    /\ fn = "generate_daily_reading_responses"
    /\ arg.value = << <<"dr">>, <<"hi">> >>
    /\ arg.store = EmptyStore
    /\ Len(ret[1].contents) = 3
    /\ ret[1].st # arg.store

\* the rows of table recipients that belong to a Reading of the type
RecipientsOfType(rs, xs, key) ==
    {x \in xs : \E r \in rs : r.id = x.reading_id /\ r.reading_type = key}

\* C23: reading types are independent.  A step of store_reading, add_recipient, a scrape or
\* process_reading made for one reading type leaves the shelf entries, the Reading rows and
\* the Recipient rows of the other two reading types unchanged.
C23_TypesIndependent ==
    [][\A w \in Workers :
         (wk[w].key \in Types /\ wk'[w] # wk[w])
         => \A k \in Types \ {wk[w].key} :
              /\ shelf'[k] = shelf[k]
              /\ {r \in readings' : r.reading_type = k} = {r \in readings : r.reading_type = k}
              /\ RecipientsOfType(readings', recipients', k) = RecipientsOfType(readings, recipients, k)]_vars
\* the jft reading is stored and has a recipient while the dr entry is in the shelf with
\* its own recipient
C23_Witness ==
    /\ HasText(DR_KEY)
    /\ shelf[DR_KEY][TodayStr].recipients # << >>
    /\ HasText(JFT_KEY)
    /\ RecipientsOfType(readings, recipients, JFT_KEY) # {}

\* in this step the periodic run of worker w decides whether to scrape its key
PeriodicDecides(w) == wk[w].op = "periodic" /\ wk[w].pc = "sd_retrieve" /\ wk'[w] # wk[w]

\* in this step a scrape of the periodic run of worker w raises
PeriodicScrapeRaises(w) ==
    wk[w].op = "periodic" /\ wk[w].pc = "scrape" /\ wk'[w] # wk[w] /\ wk'[w].pc # "sr_query"

\* C24: periodic scrape.  One run of scrape_daily_readings attempts each of dr, jft, spad
\* that has no shelf entry for today and skips those that have one, goes on with the later
\* sources when an earlier one raises, records no recipient, and never raises to the
\* scheduler.
C24_PeriodicScrape ==
    [][\A w \in Workers :
         /\ PeriodicDecides(w) => (wk'[w].pc = "scrape" <=> ~HasEntry(shelf[wk[w].key], TodayStr))
         /\ PeriodicScrapeRaises(w)
              => /\ wk'[w].key = NextKey(wk[w].key)
                 /\ wk'[w].pc = IF NextKey(wk[w].key) = "" THEN "done" ELSE "sd_retrieve"
         /\ (wk[w].op = "periodic" /\ wk'[w] # wk[w])
              => /\ recipients' = recipients
                 /\ \A k \in Types : ShelfRecipients(shelf', k) \subseteq ShelfRecipients(shelf, k)
         /\ (wk[w].op = "periodic" /\ wk'[w].pc = "done") => wk'[w].status = "ok"]_vars

\* in this step store_reading of worker w returns normally
StoreReadingReturns(w) ==
    wk[w].pc \in {"sr_query", "sr_commit"} /\ wk'[w].pc \notin {"sr_query", "sr_commit"}

\* C25: cache and durable store agree.  When store_reading(text, key, today) returns
\* normally, table readings holds a row that is found under (key, today).
C25_CacheAndStoreAgree ==
    [][\A w \in Workers :
         StoreReadingReturns(w)
         => \E r \in readings' : r.reading_type = wk[w].key /\ r.date = TodayStr]_vars

\* in this step store_reading_with_recipient is called and returns or raises
StoreWithRecipientCalled == budget' < budget /\ fn' = "store_reading_with_recipient"

\* C26: store_reading_with_recipient is a single transaction.  When the call returns, the
\* Reading and the Recipient of wa_id are both stored; when it raises, neither a Reading
\* nor a Recipient inserted by the call remains.
C26_SingleTransaction ==
    [][StoreWithRecipientCalled
       => IF ~ret'.raised
          THEN /\ \E r \in readings' : r.id = ret'.id
               /\ \E x \in recipients' : x.reading_id = ret'.id /\ x.wa_id = ret'.wa_id
          ELSE readings' = readings /\ recipients' = recipients]_vars

\* a row of the page holds the date string
PageHasDate(rows, d) == \E i \in 1..Len(rows) : Find(rows[i], d, 0) # -1

\* C27: no stale page is cached.  The text in the shelf under (jft, d) or (spad, d) holds
\* the date string d; a call of parse_jft_page or parse_spad_page during which no page
\* fetched holds today's date string raises and writes no shelf entry and no Reading row.
C27_NoStalePage ==
    /\ \A key \in {JFT_KEY, SPAD_KEY} :
         \A d \in DOMAIN shelf[key] : Find(shelf[key][d].text, d, 0) # -1
    /\ (/\ fn \in {JFT_KEY, SPAD_KEY}
        /\ \A i \in 1..ret.gets : arg.value[i].ok => ~PageHasDate(arg.value[i].value, strftime(today)))
       => /\ ~ret.ok
          /\ shelf[fn] = << >>
          /\ readings = {}
\* the page of another day, with all its rows, was fetched at every GET
C27_Witness ==
    /\ fn \in {JFT_KEY, SPAD_KEY}
    /\ \A i \in GetSlots : arg.value[i].ok /\ arg.value[i].value = PageRows(13)
    /\ ~ret.ok

\* the recipients list of the shelf entry of (key, d), empty when there is no entry
EntryRecipients(sh, key, d) == IF HasEntry(sh[key], d) THEN sh[key][d].recipients ELSE << >>

\* C28: no recipient is recorded without delivery.  When a call of process_reading for
\* (key, today, wa_id) raises or returns empty text, the recipients list of the shelf for
\* (key, today) is the same after the call as before it.
C28_NoRecipientWithoutDelivery ==
    (fn = "process_reading" /\ (ret.raised \/ ret.text = << >>))
    => EntryRecipients(ret.st.shelf, arg.key, strftime(today))
         = EntryRecipients(arg.store.shelf, arg.key, strftime(today))

\* the calls of the wrapped function that succeed
Successes(outcomes) == {i \in 1..Len(outcomes) : outcomes[i].ok}

\* C29: retry_on_failure protocol.  With n >= 1 attempts the wrapper calls the function
\* until its first success and returns that result with no further call; when all n calls
\* raise it re-raises the exception of the n-th call; it sleeps once after every call but
\* the last, (calls made - 1) times, and ends after at most n calls.
C29_RetryProtocol ==
    fn = "retry_on_failure"
    => LET outcomes == arg.value
           n == Len(outcomes)
           first == CHOOSE i \in Successes(outcomes) : \A j \in Successes(outcomes) : i <= j
       IN /\ ret.calls \in 1..n
          /\ ret.sleeps = ret.calls - 1
          /\ IF Successes(outcomes) # {}
             THEN ret.ok /\ ret.calls = first /\ ret.value = outcomes[first].value
             ELSE ~ret.ok /\ ret.calls = n /\ ret.value = outcomes[n].value
\* with three attempts the first two calls raised and the third returned; with two
\* attempts both calls raised
C29_Witness ==
    /\ fn = "retry_on_failure"
    /\ \/ Len(arg.value) = 3 /\ ret.ok /\ ret.calls = 3 /\ ret.sleeps = 2
       \/ Len(arg.value) = 2 /\ ~ret.ok /\ ret.calls = 2 /\ ret.sleeps = 1

\* the shelf entries (date, reading_type) with a non-empty text
ShelfEntries(sh) ==
    {p \in {strftime(n) : n \in Days} \X Types : HasEntry(sh[p[2]], p[1]) /\ sh[p[2]][p[1]].text # << >>}

\* C30: shelf-to-database migration.  With the database reachable, after process_readings
\* every shelf entry with a non-empty text that its parser accepts has a Reading in the
\* durable store, every recipient listed with it has a Recipient row of that Reading,
\* and the count of readings saved equals the count of readings parsed.
C30_ShelfMigration ==
    (fn = "process_readings" /\ arg.db_ok) =>
        /\ \A p \in ShelfEntries(arg.shelf) :
             LET date_data == arg.shelf[p[2]][p[1]]
                 parsed_result == ParsedDict[p[2]][date_data.text]
                 rows == {r \in ret.readings : r.reading_type = parsed_result.reading_type
                                               /\ r.date = parsed_result.date}
             IN DOMAIN parsed_result # {} =>
                  /\ rows # {}
                  /\ \A i \in 1..Len(date_data.recipients) :
                       \E x \in ret.recipients : x.reading_id = First(rows).id
                                                 /\ x.wa_id = date_data.recipients[i]
        /\ ret.db_save_count = Cardinality(ret.results)

====
